---- MODULE Spec2Model ----
(***************************************************************************)
(* Model of run_game in BerghainSolver.py: the admission loop of the       *)
(* Berghain bouncer solver.  One game is one behaviour: the game-start     *)
(* response fixes N, the constraints and the frequencies (Init), then the  *)
(* loop pulls a candidate, decides, sends the decision and applies it.     *)
(*                                                                         *)
(* Frequencies are held in hundredths (p = pct / 100), so every float      *)
(* comparison of the source is the same comparison multiplied through by   *)
(* its (positive) denominators.                                            *)
(***************************************************************************)
EXTENDS Integers, Sequences, FiniteSets, TLC

\* Bound: number of candidates the candidate source supplies in one run.
MaxArrivals == 5

\* Bound: number of candidates supplied in a long run, in which the source
\* draws from a pool of two kinds of candidate only.
MaxLongRun == 9

\* delta[a] < -5 marks an attribute at-risk (line 127).
Tolerance == 5
\* admit_true[a] >= 1.02 * need_orig[a] (line 131), in hundredths.
OverfillPct == 102
\* observed_admit_ratio < 0.90 * target_ratio (line 146), in hundredths.
RescuePct == 90
\* p <= 0.10 (line 70), in hundredths.
RareFreqPct == 10
\* req_rate >= 0.9 * p (line 74), in tenths.
RareRateTenths == 9

Reasons ==
    {"fill_after_constraints", "risk_block", "overfill_guard", "multi_trait_boost",
     "budget_rescue", "rare_trait_boost", "standard_help", "no_help"}

\* The game-start responses explored: targetAdmissions, constraints
\* (attribute -> minCount) and relativeFrequencies (attribute -> hundredths;
\* an attribute may have no published frequency).
\* The last two games are followed for a long run (long = TRUE).
Games ==
    { [N |-> 4,   need |-> ("A" :> 2),             freq |-> ("A" :> 50),
       long |-> FALSE],
      [N |-> 100, need |-> ("C" :> 1),             freq |-> ("C" :> 5),
       long |-> FALSE],
      [N |-> 100, need |-> ("C" :> 2),             freq |-> ("C" :> 10),
       long |-> FALSE],
      [N |-> 10,  need |-> ("A" :> 2 @@ "B" :> 2), freq |-> ("A" :> 50 @@ "B" :> 50),
       long |-> FALSE],
      [N |-> 6,   need |-> ("A" :> 7 @@ "B" :> 1), freq |-> ("B" :> 50),
       long |-> FALSE],
      [N |-> 2,   need |-> ("A" :> 1 @@ "B" :> 0), freq |-> ("A" :> 50 @@ "B" :> 50),
       long |-> FALSE],
      [N |-> 1,   need |-> ("A" :> 1 @@ "B" :> 0), freq |-> ("A" :> 100),
       long |-> TRUE],
      [N |-> 1,   need |-> ("A" :> 0 @@ "B" :> 21), freq |-> ("A" :> 100),
       long |-> TRUE] }

\* Values a terminal response can carry: rejectedCount and reason.
RejectedCounts == {0, 3}
FailReasons == {"quota unreachable", "too many rejections"}

VARIABLES
    N,            \* targetAdmissions
    need_orig,    \* attribute -> minCount
    rel_f,        \* attribute -> relative frequency (hundredths)
    rare_traits,  \* set of attributes classified rare at game start
    need_rem,     \* attribute -> remaining deficit
    seen_true,    \* attribute -> arrivals that carried it
    admit_true,   \* attribute -> admits counted for it
    admitted,     \* total admits
    processed,    \* total arrivals
    reasons,      \* reason -> number of verdicts with that reason
    resp,         \* most recent response of the candidate source
    A,            \* attributes of the candidate being decided
    accept,       \* verdict of the current candidate
    reason,       \* reason of the current candidate
    pc,           \* position of run_game
    log,          \* history: one record per applied verdict
    sent,         \* the accept flags sent to the decision sink, in order
    printed,      \* what run_game reports when it ends
    source        \* the candidate source: its pool of candidates and its length

vars == <<N, need_orig, rel_f, rare_traits, need_rem, seen_true, admit_true,
          admitted, processed, reasons, resp, A, accept, reason, pc, log,
          sent, printed, source>>

config == <<N, need_orig, rel_f, rare_traits>>

\* attrs = list(need_orig.keys())
attrs == DOMAIN need_orig

\* float(rel_f.get(a, 0.0) or 0.0), in hundredths
P(a) == IF a \in DOMAIN rel_f THEN rel_f[a] ELSE 0

\* A get whose default for a missing key is True.
Get_MissingTrue(attr_dict, a) == IF a \in DOMAIN attr_dict THEN attr_dict[a] ELSE TRUE

\* attr_dict.get(a, False): a missing key reads as False
Get(attr_dict, a) == IF a \in DOMAIN attr_dict THEN attr_dict[a] ELSE FALSE

\* A candidate is a mapping from some of the attribute names to booleans.
Candidates == UNION { [S -> BOOLEAN] : S \in SUBSET attrs }

\* The attributes a candidate carries.
Carried(attr_dict) == { a \in attrs : Get(attr_dict, a) }

\* The pool of a long run: candidates with every key present that carry
\* exactly one attribute.
OneTraitCandidates ==
    { c \in [attrs -> BOOLEAN] : Cardinality({ a \in attrs : c[a] }) = 1 }

RECURSIVE SumOver(_, _)
SumOver(f, S) ==
    IF S = {} THEN 0
    ELSE LET a == CHOOSE x \in S : TRUE IN f[a] + SumOver(f, S \ {a})

\* sum(need_rem.values())
SumNeed(nr) == SumOver(nr, DOMAIN nr)

Max(x, y) == IF x >= y THEN x ELSE y

\* IsRare without the p <= 0.10 branch.
IsRare_RateOnly(n, no, a, p) ==
    p > 0 /\ 1000 * no[a] >= RareRateTenths * p * n

\* IsRare with p < 0.10 in place of p <= 0.10.
IsRare_Strict(n, no, a, p) ==
    \/ p < RareFreqPct
    \/ p > 0 /\ 1000 * no[a] >= RareRateTenths * p * n

\* Rarity classification of one attribute at game start (lines 68-75):
\* p <= 0.10, or p > 0 and need_orig[a] / N >= 0.9 * p.
IsRare(n, no, a, p) ==
    \/ p <= RareFreqPct
    \/ p > 0 /\ 1000 * no[a] >= RareRateTenths * p * n

RareTraits(n, no, rf) ==
    { a \in DOMAIN no : IsRare(n, no, a, IF a \in DOMAIN rf THEN rf[a] ELSE 0) }

\* projected_deltas(slots_left), each delta multiplied by 100.
projected_deltas(slots_left, st, nr) ==
    [a \in attrs |-> 100 * st[a] + slots_left * P(a) - 100 * nr[a]]

\* multi_trait_hits(attr_dict)
multi_trait_hits(attr_dict, nr) ==
    { a \in attrs : Get(attr_dict, a) /\ nr[a] > 0 }

\* AT_RISK = [a for a in attrs if deltas[a] < -5]
AT_RISK(slots_left, st, nr) ==
    { a \in attrs : projected_deltas(slots_left, st, nr)[a] < -(100 * Tolerance) }

\* overfilled_hit (line 131)
overfilled_hit(hits, at) ==
    \E a \in hits : need_orig[a] > 0 /\ 100 * at[a] >= OverfillPct * need_orig[a]

\* budget_rescue with the comparison of line 146 turned round.
budget_rescue_Inverted(hits, st, at, nr) ==
    \E a \in hits :
        /\ nr[a] > 0
        /\ at[a] * Max(100, N * P(a)) > RescuePct * need_orig[a] * Max(1, st[a])

\* budget_rescue (lines 137-148):
\* admit_true[a] / max(1, seen_true[a]) < 0.90 * need_orig[a] / max(1.0, N * p)
budget_rescue(hits, st, at, nr) ==
    \E a \in hits :
        /\ nr[a] > 0
        /\ at[a] * Max(100, N * P(a)) < RescuePct * need_orig[a] * Max(1, st[a])

\* rare_boost (line 151)
rare_boost(attr_dict, nr) ==
    \E a \in attrs : a \in rare_traits /\ nr[a] > 0 /\ Get(attr_dict, a)

\* Decision with the rare-trait rule tested before the budget rule.
Decision_RareFirst(attr_dict, st, at, nr, adm) ==
    LET slots_left_now == N - adm
        hits   == multi_trait_hits(attr_dict, nr)
        k_hits == Cardinality(hits)
        risk   == AT_RISK(slots_left_now, st, nr)
    IN  IF SumNeed(nr) <= 0
          THEN [accept |-> TRUE, reason |-> "fill_after_constraints"]
        ELSE IF risk # {} /\ ~ \E a \in risk : Get(attr_dict, a)
          THEN [accept |-> FALSE, reason |-> "risk_block"]
        ELSE IF overfilled_hit(hits, at)
          THEN [accept |-> FALSE, reason |-> "overfill_guard"]
        ELSE IF k_hits >= 2
          THEN [accept |-> TRUE, reason |-> "multi_trait_boost"]
        ELSE IF rare_boost(attr_dict, nr) /\ k_hits >= 1
          THEN [accept |-> TRUE, reason |-> "rare_trait_boost"]
        ELSE IF budget_rescue(hits, st, at, nr)
          THEN [accept |-> TRUE, reason |-> "budget_rescue"]
        ELSE IF k_hits >= 1
          THEN [accept |-> TRUE, reason |-> "standard_help"]
        ELSE [accept |-> FALSE, reason |-> "no_help"]

\* Decision with the short-circuit of line 115 testing < 0 instead of <= 0.
Decision_FillStrict(attr_dict, st, at, nr, adm) ==
    LET slots_left_now == N - adm
        hits   == multi_trait_hits(attr_dict, nr)
        k_hits == Cardinality(hits)
        risk   == AT_RISK(slots_left_now, st, nr)
    IN  IF SumNeed(nr) < 0
          THEN [accept |-> TRUE, reason |-> "fill_after_constraints"]
        ELSE IF risk # {} /\ ~ \E a \in risk : Get(attr_dict, a)
          THEN [accept |-> FALSE, reason |-> "risk_block"]
        ELSE IF overfilled_hit(hits, at)
          THEN [accept |-> FALSE, reason |-> "overfill_guard"]
        ELSE IF k_hits >= 2
          THEN [accept |-> TRUE, reason |-> "multi_trait_boost"]
        ELSE IF budget_rescue(hits, st, at, nr)
          THEN [accept |-> TRUE, reason |-> "budget_rescue"]
        ELSE IF rare_boost(attr_dict, nr) /\ k_hits >= 1
          THEN [accept |-> TRUE, reason |-> "rare_trait_boost"]
        ELSE IF k_hits >= 1
          THEN [accept |-> TRUE, reason |-> "standard_help"]
        ELSE [accept |-> FALSE, reason |-> "no_help"]

\* The decision of one loop iteration (lines 112-167): seen_true has been
\* updated for this candidate, admitted and need_rem have not.
Decision(attr_dict, st, at, nr, adm) ==
    LET slots_left_now == N - adm
        hits   == multi_trait_hits(attr_dict, nr)
        k_hits == Cardinality(hits)
        risk   == AT_RISK(slots_left_now, st, nr)
    IN  IF SumNeed(nr) <= 0
          THEN [accept |-> TRUE, reason |-> "fill_after_constraints"]
        ELSE IF risk # {} /\ ~ \E a \in risk : Get(attr_dict, a)
          THEN [accept |-> FALSE, reason |-> "risk_block"]
        ELSE IF overfilled_hit(hits, at)
          THEN [accept |-> FALSE, reason |-> "overfill_guard"]
        ELSE IF k_hits >= 2
          THEN [accept |-> TRUE, reason |-> "multi_trait_boost"]
        ELSE IF budget_rescue(hits, st, at, nr)
          THEN [accept |-> TRUE, reason |-> "budget_rescue"]
        ELSE IF rare_boost(attr_dict, nr) /\ k_hits >= 1
          THEN [accept |-> TRUE, reason |-> "rare_trait_boost"]
        ELSE IF k_hits >= 1
          THEN [accept |-> TRUE, reason |-> "standard_help"]
        ELSE [accept |-> FALSE, reason |-> "no_help"]

\* Update of the observed opportunities (lines 107-109).
SeenAfter(st, attr_dict) ==
    [a \in attrs |-> IF Get(attr_dict, a) THEN st[a] + 1 ELSE st[a]]

\* NeedAfterAdmit without the need_rem[a] > 0 test and the clamp at zero.
NeedAfterAdmit_NoGuard(nr, attr_dict) ==
    [a \in attrs |-> IF Get(attr_dict, a) THEN nr[a] - 1 ELSE nr[a]]

\* Update of the remaining needs on an admit (lines 178-181).
NeedAfterAdmit(nr, attr_dict) ==
    [a \in attrs |->
        IF nr[a] > 0 /\ Get(attr_dict, a)
          THEN (IF nr[a] - 1 < 0 THEN 0 ELSE nr[a] - 1)
          ELSE nr[a]]

\* AdmitTrueAfterAdmit counting every admitted carrier, quota met or not.
AdmitTrueAfterAdmit_EveryCarrier(at, nr, attr_dict) ==
    [a \in attrs |-> IF Get(attr_dict, a) THEN at[a] + 1 ELSE at[a]]

\* AdmitTrueAfterAdmit without the test that the candidate carries a.
AdmitTrueAfterAdmit_All(at, nr, attr_dict) ==
    [a \in attrs |-> IF nr[a] > 0 THEN at[a] + 1 ELSE at[a]]

\* Update of the admit counters on an admit (lines 178-182).
AdmitTrueAfterAdmit(at, nr, attr_dict) ==
    [a \in attrs |->
        IF nr[a] > 0 /\ Get(attr_dict, a) THEN at[a] + 1 ELSE at[a]]

\* The responses the candidate source can give to a pull: a next person
\* while it still has arrivals, or a terminal status.
Responses(n) ==
    (IF n < source.length
       THEN { [status |-> "running", attributes |-> c] : c \in source.pool }
       ELSE {})
    \cup { [status |-> "completed", rejectedCount |-> k] : k \in RejectedCounts }
    \cup { [status |-> "failed", reason |-> r] : r \in FailReasons }
    \cup { [status |-> "paused"] }

\* A report that prints the engine's own rejection count for "completed".
FinalReport_OwnCount(r) ==
    IF r.status = "completed"
      THEN [label |-> "Rejected:", value |-> processed - admitted]
    ELSE IF r.status = "failed"
      THEN [label |-> "Reason:", value |-> r.reason]
    ELSE [label |-> "=== STOP ===", value |-> r]

\* Lines 211-220: the report for the response that ended the loop.
FinalReport(r) ==
    IF r.status = "completed"
      THEN [label |-> "Rejected:", value |-> r.rejectedCount]
    ELSE IF r.status = "failed"
      THEN [label |-> "Reason:", value |-> r.reason]
    ELSE [label |-> "=== STOP ===", value |-> r]

Init ==
    /\ \E g \in Games :
        /\ N = g.N
        /\ need_orig = g.need
        /\ rel_f = g.freq
        /\ rare_traits = RareTraits(g.N, g.need, g.freq)
        /\ need_rem = g.need
        /\ seen_true = [a \in DOMAIN g.need |-> 0]
        /\ admit_true = [a \in DOMAIN g.need |-> 0]
        /\ source = IF g.long
                      THEN [pool |-> OneTraitCandidates, length |-> MaxLongRun]
                      ELSE [pool |-> Candidates, length |-> MaxArrivals]
    /\ sent = <<>>
    /\ printed = [label |-> "", value |-> ""]
    /\ admitted = 0
    /\ processed = 0
    /\ reasons = [r \in Reasons |-> 0]
    /\ resp = [status |-> "none"]
    /\ A = <<>>
    /\ accept = FALSE
    /\ reason = "none"
    /\ pc = "first_pull"
    /\ log = <<>>

\* Lines 92-94: the first pull; anything but "running" returns at once.
FirstPull ==
    /\ pc = "first_pull"
    /\ \E r \in Responses(processed) :
        /\ resp' = r
        /\ pc' = IF r.status = "running" THEN "loop" ELSE "returned"
        /\ printed' = IF r.status = "running"
                        THEN printed
                        ELSE [label |-> "Unexpected start:", value |-> r]
    /\ UNCHANGED <<config, need_rem, seen_true, admit_true, admitted, processed,
                   reasons, A, accept, reason, log, sent, source>>

\* Lines 100-167: the loop test, the bookkeeping of the arrival and the verdict.
Decide ==
    /\ pc = "loop"
    /\ resp.status = "running"
    /\ A' = resp.attributes
    /\ processed' = processed + 1
    /\ seen_true' = SeenAfter(seen_true, resp.attributes)
    /\ LET d == Decision(resp.attributes, seen_true', admit_true, need_rem, admitted)
       IN  accept' = d.accept /\ reason' = d.reason
    /\ pc' = "send"
    /\ UNCHANGED <<config, need_rem, admit_true, admitted, reasons, resp, log,
                   sent, printed, source>>

\* A send step that reports only the accepts to the decision sink.
Send_AcceptsOnly ==
    /\ pc = "send"
    /\ sent' = IF accept THEN Append(sent, accept) ELSE sent
    /\ \E r \in Responses(processed) : resp' = r
    /\ pc' = "apply"
    /\ UNCHANGED <<config, need_rem, seen_true, admit_true, admitted, processed,
                   reasons, A, accept, reason, log, printed, source>>

\* Lines 170-172: the decision is sent and the next response received.
Send ==
    /\ pc = "send"
    /\ sent' = Append(sent, accept)
    /\ \E r \in Responses(processed) : resp' = r
    /\ pc' = "apply"
    /\ UNCHANGED <<config, need_rem, seen_true, admit_true, admitted, processed,
                   reasons, A, accept, reason, log, printed, source>>

\* Lines 173-182 and the loop test of line 100: the verdict is applied.
Apply ==
    /\ pc = "apply"
    /\ reasons' = [reasons EXCEPT ![reason] = @ + 1]
    /\ IF accept
         THEN /\ admitted' = admitted + 1
              /\ need_rem' = NeedAfterAdmit(need_rem, A)
              /\ admit_true' = AdmitTrueAfterAdmit(admit_true, need_rem, A)
         ELSE UNCHANGED <<admitted, need_rem, admit_true>>
    /\ log' = Append(log, [carried |-> Carried(A), accept |-> accept, reason |-> reason])
    /\ pc' = IF resp.status = "running" THEN "loop" ELSE "done"
    /\ UNCHANGED <<config, seen_true, processed, resp, A, accept, reason,
                   sent, printed, source>>

\* Lines 210-220: the loop has ended; the final status is reported.
Report ==
    /\ pc = "done"
    /\ printed' = FinalReport(resp)
    /\ pc' = "exited"
    /\ UNCHANGED <<config, need_rem, seen_true, admit_true, admitted, processed,
                   reasons, resp, A, accept, reason, log, sent, source>>

\* An interrupt handler that finalizes the pending verdict before exiting.
Interrupt_Finalizes ==
    /\ pc \in {"first_pull", "send"}
    /\ pc' = "aborted"
    /\ IF pc = "send" /\ accept
         THEN /\ admitted' = admitted + 1
              /\ need_rem' = NeedAfterAdmit(need_rem, A)
              /\ admit_true' = AdmitTrueAfterAdmit(admit_true, need_rem, A)
         ELSE UNCHANGED <<admitted, need_rem, admit_true>>
    /\ UNCHANGED <<config, seen_true, processed,
                   reasons, resp, A, accept, reason, log, sent, printed, source>>

\* Lines 26-27: an interrupt while a request is in flight exits the process.
Interrupt ==
    /\ pc \in {"first_pull", "send"}
    /\ pc' = "aborted"
    /\ UNCHANGED <<config, need_rem, seen_true, admit_true, admitted, processed,
                   reasons, resp, A, accept, reason, log, sent, printed, source>>

Next == FirstPull \/ Decide \/ Send \/ Apply \/ Report \/ Interrupt

Spec == Init /\ [][Next]_vars

TypeOK ==
    /\ pc \in {"first_pull", "loop", "send", "apply", "done", "exited",
               "returned", "aborted"}
    /\ admitted \in Nat /\ processed \in 0..source.length
    /\ \A a \in attrs : seen_true[a] \in Nat /\ admit_true[a] \in Nat
    /\ Len(log) <= processed

(***************************************************************************)
(* Properties                                                              *)
(***************************************************************************)

AcceptReasons ==
    {"fill_after_constraints", "multi_trait_boost", "budget_rescue",
     "rare_trait_boost", "standard_help"}

\* The verdict has been computed for candidate A and not yet applied.
Decided == pc \in {"send", "apply"}

\* The rule chain as an ordered list of (condition, reason); the reason of the
\* first rule whose condition holds.
FirstMatchingRule ==
    LET hits  == { a \in attrs : Get(A, a) /\ need_rem[a] > 0 }
        k     == Cardinality(hits)
        risk  == AT_RISK(N - admitted, seen_true, need_rem)
        rules ==
          << [when |-> \A a \in attrs : need_rem[a] = 0,
              reason |-> "fill_after_constraints"],
             [when |-> risk # {} /\ Carried(A) \cap risk = {},
              reason |-> "risk_block"],
             [when |-> overfilled_hit(hits, admit_true),
              reason |-> "overfill_guard"],
             [when |-> k >= 2,
              reason |-> "multi_trait_boost"],
             [when |-> budget_rescue(hits, seen_true, admit_true, need_rem),
              reason |-> "budget_rescue"],
             [when |-> rare_boost(A, need_rem) /\ k >= 1,
              reason |-> "rare_trait_boost"],
             [when |-> k >= 1,
              reason |-> "standard_help"],
             [when |-> TRUE,
              reason |-> "no_help"] >>
        first == CHOOSE i \in 1..Len(rules) :
                    rules[i].when /\ \A j \in 1..(i - 1) : ~ rules[j].when
    IN  rules[first].reason

\* C1: the verdict and reason of every decided candidate are those of the first
\* matching rule in the fixed order, and accept is true exactly for the five
\* accepting reasons.
C1_RuleOrder ==
    Decided => /\ reason = FirstMatchingRule
               /\ accept = (reason \in AcceptReasons)

\* A candidate with one hit, no budget rescue, decided by the rare-trait rule.
C1_Witness == pc = "send" /\ reason = "rare_trait_boost"

NeedBounds == \A a \in attrs : 0 <= need_rem[a] /\ need_rem[a] <= need_orig[a]

NeedStep ==
    \A a \in attrs :
        need_rem'[a] = IF pc = "apply" /\ accept /\ Get(A, a) /\ need_rem[a] > 0
                         THEN need_rem[a] - 1
                         ELSE need_rem[a]

\* C2: 0 <= needRemaining[a] <= minCount[a] in every state; needRemaining[a]
\* drops by exactly 1 when an admitted candidate carries a and needRemaining[a]
\* is positive, and is otherwise unchanged.
C2_NeedRemaining == []NeedBounds /\ [][NeedStep]_vars

\* An admitted candidate carried a after the quota of a was already met.
C2_Witness ==
    /\ Len(log) >= 2
    /\ \E a \in attrs :
        /\ need_orig[a] > 0 /\ need_rem[a] = 0
        /\ log[Len(log)].accept /\ a \in log[Len(log)].carried
        /\ log[Len(log)].reason = "fill_after_constraints"

\* C3: the total admitted count never exceeds the capacity N.
C3_Capacity == admitted <= N

\* C4: once admitted = N, no further candidate is processed: seenTrue,
\* admitted, needRemaining, admitTrue and processed never change again.
C4_StopsAtCapacity ==
    [][admitted = N =>
         UNCHANGED <<seen_true, admitted, need_rem, admit_true, processed>>]_vars

\* C5: once the sum of needRemaining is 0 it stays 0, and every candidate
\* decided from then on is accepted with reason fill_after_constraints.
C5_FillAfterConstraints ==
    /\ [][SumNeed(need_rem) = 0 => SumNeed(need_rem') = 0]_vars
    /\ [](Decided /\ SumNeed(need_rem) = 0
            => accept /\ reason = "fill_after_constraints")

\* All quotas met (there were some), a candidate carrying nothing is decided.
C5_Witness ==
    /\ pc = "send"
    /\ SumNeed(need_orig) > 0 /\ SumNeed(need_rem) = 0
    /\ Carried(A) = {}

\* Number of admitted candidates so far that carried a.
AdmittedCarrying(a) ==
    Cardinality({ i \in 1..Len(log) : log[i].accept /\ a \in log[i].carried })

\* C6: admitTrue[a] equals the number of admitted candidates so far that
\* carried a, including those admitted after the quota of a was met.
C6_AdmitTrueCounts == \A a \in attrs : admit_true[a] = AdmittedCarrying(a)

\* C7: admitTrue[a] <= seenTrue[a] in every state, and both counters never
\* decrease.
C7_AdmitLeSeen ==
    /\ [](\A a \in attrs : admit_true[a] <= seen_true[a])
    /\ [][\A a \in attrs : /\ admit_true'[a] >= admit_true[a]
                           /\ seen_true'[a] >= seen_true[a]]_vars

\* Some carriers of a were admitted and some were turned away.
C7_Witness ==
    \E a \in attrs : 0 < admit_true[a] /\ admit_true[a] < seen_true[a]

\* Scenario 1: N = 4, one constraint {A, 2}, p(A) = 0.5.
IsScenario1 == N = 4 /\ need_orig = ("A" :> 2) /\ rel_f = ("A" :> 50)

\* Arrivals [A=false, A=true, A=true, A=false, A=true], as carried sets.
Scenario1Arrivals == << {}, {"A"}, {"A"}, {}, {"A"} >>

\* The verdicts applied so far are those of a prefix of scenario 1.
OnScenario1 ==
    /\ IsScenario1
    /\ Len(log) <= Len(Scenario1Arrivals)
    /\ \A i \in 1..Len(log) : log[i].carried = Scenario1Arrivals[i]

Rejections == Cardinality({ i \in 1..Len(log) : ~ log[i].accept })

Scenario1Outcome(verdicts) ==
    OnScenario1 =>
        /\ \A i \in 1..Len(log) : /\ log[i].accept = verdicts[i].accept
                                  /\ log[i].reason = verdicts[i].reason
        /\ Len(log) = 3 => need_rem["A"] = 0
        /\ Len(log) = 5 => admitted = 4 /\ Rejections = 1

\* C9 as stated: reject no_help, accept standard_help twice, accept
\* fill_after_constraints twice, ending with admitted = 4 and 1 rejection.
C9_Scenario1Stated ==
    Scenario1Outcome(<< [accept |-> FALSE, reason |-> "no_help"],
                        [accept |-> TRUE,  reason |-> "standard_help"],
                        [accept |-> TRUE,  reason |-> "standard_help"],
                        [accept |-> TRUE,  reason |-> "fill_after_constraints"],
                        [accept |-> TRUE,  reason |-> "fill_after_constraints"] >>)

\* C9 amended: the second and third arrivals are accepted with reason
\* budget_rescue; everything else as stated.
C9_Scenario1 ==
    Scenario1Outcome(<< [accept |-> FALSE, reason |-> "no_help"],
                        [accept |-> TRUE,  reason |-> "budget_rescue"],
                        [accept |-> TRUE,  reason |-> "budget_rescue"],
                        [accept |-> TRUE,  reason |-> "fill_after_constraints"],
                        [accept |-> TRUE,  reason |-> "fill_after_constraints"] >>)

\* All five arrivals of scenario 1 have been decided and applied.
C9_Witness == OnScenario1 /\ Len(log) = 5

\* Rare-trait scenario: N = 100, one constraint {C, 1}, p(C) = 0.05; a
\* candidate with C = true is decided while needRemaining[C] > 0.
RareScenarioCase ==
    /\ N = 100 /\ need_orig = ("C" :> 1) /\ rel_f = ("C" :> 5)
    /\ Decided /\ Get(A, "C") /\ need_rem["C"] > 0

\* C10 as stated: C is rare and the candidate is accepted with reason
\* rare_trait_boost.
C10_RareScenarioStated ==
    RareScenarioCase =>
        "C" \in rare_traits /\ accept /\ reason = "rare_trait_boost"

\* C10 amended: C is rare and the candidate is accepted with reason
\* budget_rescue.
C10_RareScenario ==
    RareScenarioCase =>
        "C" \in rare_traits /\ accept /\ reason = "budget_rescue"

\* The C candidate arrives after an earlier arrival without C.
C10_Witness == RareScenarioCase /\ pc = "send" /\ processed >= 2

\* At-risk attributes for the candidate being decided (slots_left_now = N - admitted).
AtRiskNow == AT_RISK(N - admitted, seen_true, need_rem)

\* The candidate being decided carries none of the at-risk attributes.
RiskBlocked == AtRiskNow # {} /\ Carried(A) \cap AtRiskNow = {}

\* The candidate carries an attribute a of which at least 1.02 * minCount[a]
\* carriers were admitted already, another quota is unmet, no risk block.
OverfillCase ==
    /\ Decided
    /\ ~ RiskBlocked
    /\ \E a \in Carried(A) :
        /\ need_orig[a] > 0
        /\ 100 * AdmittedCarrying(a) >= OverfillPct * need_orig[a]
        /\ \E b \in attrs \ {a} : need_rem[b] > 0

\* C11: a candidate carrying an attribute already admitted to 1.02 * minCount
\* or more, while another quota is unmet and no risk block applies, is rejected
\* with reason overfill_guard.
C11_OverfillGuard == OverfillCase => ~ accept /\ reason = "overfill_guard"

\* C12: whenever some attribute is at-risk (delta < -5) and the candidate
\* carries none of the at-risk attributes, the verdict is reject with reason
\* risk_block.
C12_RiskBlockFirst == (Decided /\ RiskBlocked) => ~ accept /\ reason = "risk_block"

\* Some quota is unmet and the candidate carries no attribute with unmet need.
ZeroHits ==
    /\ Decided
    /\ SumNeed(need_rem) > 0
    /\ \A a \in Carried(A) : need_rem[a] = 0

\* C13: while some quota is unmet a candidate with k = 0 is rejected, its reason
\* is no_help exactly when no attribute is at-risk, and no accept rule fires.
C13_ZeroHitsRejected ==
    ZeroHits => /\ ~ accept
                /\ reason \notin AcceptReasons
                /\ (reason = "no_help") <=> (AtRiskNow = {})

\* The same candidate with every missing key of a constrained attribute set
\* to false.
WithFalseForMissing(attr_dict) ==
    [a \in attrs |-> IF a \in DOMAIN attr_dict THEN attr_dict[a] ELSE FALSE]

\* C14: a candidate whose map lacks keys gets the verdict and reason of the same
\* candidate with those keys false, and seenTrue, needRemaining and admitTrue
\* are updated as for that candidate.
C14_MissingKeyIsFalse ==
    /\ [](Decided =>
            Decision(WithFalseForMissing(A), seen_true, admit_true, need_rem, admitted)
              = [accept |-> accept, reason |-> reason])
    /\ [][pc = "loop" =>
            seen_true' = SeenAfter(seen_true, WithFalseForMissing(resp.attributes))]_vars
    /\ [][pc = "apply" /\ accept =>
            /\ need_rem' = NeedAfterAdmit(need_rem, WithFalseForMissing(A))
            /\ admit_true' = AdmitTrueAfterAdmit(admit_true, need_rem,
                                                 WithFalseForMissing(A))]_vars

\* An admitted candidate that carried one attribute and lacked the key of another.
C14_Witness ==
    /\ Len(log) > 0 /\ log[Len(log)].accept
    /\ pc \in {"loop", "done"}
    /\ DOMAIN A # attrs /\ Carried(A) # {}

\* C15: an interrupt while the decision of a candidate is pending aborts the
\* run with admitted, needRemaining and admitTrue as they were before that
\* candidate, and nothing is processed afterwards.
C15_InterruptAppliesNothing ==
    /\ [][pc = "send" /\ pc' = "aborted" =>
            UNCHANGED <<admitted, need_rem, admit_true>>]_vars
    /\ [](pc = "aborted" /\ processed > 0 => Len(log) = processed - 1)
    /\ [][pc = "aborted" => UNCHANGED vars]_vars

\* The run was interrupted while an accept for a trait carrier was pending.
C15_Witness ==
    /\ pc = "aborted"
    /\ processed >= 2 /\ accept /\ Carried(A) # {}
    /\ SumNeed(need_rem) > 0

\* The most recent response is a terminal one.
Terminal == resp.status \notin {"none", "running"}

\* A decision is computed and sent only while the latest response is "running".
DecidesOnlyWhileRunning ==
    [][processed' # processed \/ sent' # sent => resp.status = "running"]_vars

\* The report at the end of the loop passes the source's values through, and a
\* first response other than "running" leaves every candidate unprocessed.
ReportsPassThrough ==
    /\ [](pc = "exited" /\ resp.status = "completed" =>
            printed.label = "Rejected:" /\ printed.value = resp.rejectedCount)
    /\ [](pc = "exited" /\ resp.status = "failed" =>
            printed.label = "Reason:" /\ printed.value = resp.reason)
    /\ [](pc = "returned" =>
            /\ Terminal /\ processed = 0 /\ admitted = 0
            /\ log = <<>> /\ sent = <<>> /\ need_rem = need_orig)

\* C16 as stated: after the first response that is not "running" no decision
\* is sent and no state is mutated.
C16_TerminalStated ==
    /\ DecidesOnlyWhileRunning
    /\ [][Terminal =>
            UNCHANGED <<sent, need_rem, seen_true, admit_true, admitted,
                        processed>>]_vars
    /\ ReportsPassThrough

\* C16 amended: after the first response that is not "running" no decision is
\* sent and no candidate is processed; the only mutation left is the
\* application of the verdict whose sending returned that response.
C16_Terminal ==
    /\ DecidesOnlyWhileRunning
    /\ [][Terminal =>
            /\ UNCHANGED <<sent, seen_true, processed, resp>>
            /\ pc # "apply" => UNCHANGED <<need_rem, admit_true, admitted>>]_vars
    /\ ReportsPassThrough

\* The source answered "failed" to an accept, which was then applied and the
\* reason reported.
C16_Witness ==
    /\ pc = "exited" /\ resp.status = "failed"
    /\ processed >= 2 /\ accept /\ Carried(A) # {}

NextAfterBoth ==
    [][processed' # processed =>
         Len(sent) = processed /\ Len(log) = processed]_vars

\* C18 as stated: within each step the QuotaState update for the verdict
\* happens before the verdict is emitted (so no more verdicts are emitted than
\* applied), and the next candidate is considered only after both.
C18_UpdateThenEmitStated ==
    /\ [](Len(sent) <= Len(log))
    /\ NextAfterBoth

\* C18 amended: within each step the verdict is emitted before the QuotaState
\* update for it happens (so no more verdicts are applied than emitted, and the
\* applied ones are those emitted), and the next candidate is considered only
\* after both.
C18_EmitThenUpdate ==
    /\ [](/\ Len(log) <= Len(sent) /\ Len(sent) <= Len(log) + 1
          /\ \A i \in 1..Len(log) : log[i].accept = sent[i])
    /\ NextAfterBoth

\* An accept has been emitted and is not yet applied.
C18_Witness ==
    /\ pc = "apply" /\ accept
    /\ Len(sent) = Len(log) + 1 /\ Len(log) >= 1

RiskComputed == Decided /\ SumNeed(need_rem) > 0

\* C20: every at-risk attribute has need_rem > 0; when AT_RISK is non-empty
\* the candidate is accepted exactly if it carries an at-risk attribute; every
\* accept made while a quota is unmet lowers sum(need_rem) by at least 1; and
\* at most sum(minCount) candidates are admitted before all quotas are met.
C20_AtRiskHasNeed ==
    /\ [](RiskComputed => \A a \in AtRiskNow : need_rem[a] > 0)
    /\ [](RiskComputed /\ AtRiskNow # {} =>
            (accept <=> Carried(A) \cap AtRiskNow # {}))
    /\ [][pc = "apply" /\ accept /\ SumNeed(need_rem) > 0 =>
            SumNeed(need_rem') <= SumNeed(need_rem) - 1]_vars
    /\ [](admitted - reasons["fill_after_constraints"] <= SumNeed(need_orig))
====
